---------------------------- MODULE Spec2Model ----------------------------
(***************************************************************************)
(* A model of the glossary browser of kurwactionary.github.io.             *)
(*                                                                         *)
(* The repository holds two versions of the page's program:                *)
(*   - src/script.js, lines 2-177: the event-delegating script with the    *)
(*     debounced search box and the hover prefetch of the definition       *)
(*     panel (definitions without a prefix, or with the prefix S_);        *)
(*   - src/unnamed/part_001: the page-inline script with the three-level   *)
(*     default tree, the grouped search results and selectWord            *)
(*     (definitions with the prefix P_).                                   *)
(* Spec is the state machine of script.js, SpecPage the one of part_001,   *)
(* SpecLive is Spec with the browser's timers running.  script.js holds a  *)
(* second version of itself (lines 180-344) without the prefetch, whose    *)
(* one different function has the prefix S2_.                              *)
(* Both run over the same variables; a variable one program does not have  *)
(* keeps its initial value in that program's specification.                *)
(*                                                                         *)
(* JavaScript strings are sequences of one-character strings, so that      *)
(* toLowerCase, trim, includes and startsWith are computed.  An optional   *)
(* value (null / undefined / a value) is a sequence of length 0 or 1.      *)
(***************************************************************************)
EXTENDS Naturals, Integers, Sequences, FiniteSets, TLC

VARIABLES
    payload,              \* the JSON document the data source will answer with
    fetch,                \* "pending" | "ok" | "failed": the state of loadData's await
    words,                \* state.words (script.js) / wordsData (part_001)
    currentWord,          \* state.currentWord: optional entry / currentWord: optional string
    searchTerm,           \* state.searchTerm / searchTerm
    treeContainer,        \* children of #treeContainer, in document order
    definitionPanel,      \* content of #definitionPanel
    searchInput,          \* #searchInput.value
    prefetchedDefinition, \* state.prefetchedDefinition (script.js only)
    timers,               \* the browser's pending timeouts (script.js only)
    timeoutId,            \* debounce's closure variable: optional timer id
    nextTimer,            \* the id the next setTimeout returns
    hover,                \* the tree node under the pointer (script.js only)
    bursts,               \* history: keystrokes that found no timer pending
    updates               \* history: runs of the debounced search handler

vars == <<payload, fetch, words, currentWord, searchTerm, treeContainer,
          definitionPanel, searchInput, prefetchedDefinition, timers,
          timeoutId, nextTimer, hover, bursts, updates>>

---------------------------------------------------------------------------
(* Bounds of the model.                                                    *)

\* Longest record set of the enumerated family.
MaxWords == 2
\* Largest number of children of the level-1 node of the fan-out family.
MaxKids == 4
\* Number of keystrokes in the search box in one run of script.js.
MaxKeys == 3

---------------------------------------------------------------------------
(* Optional values.                                                        *)

None == <<>>
Some(x) == <<x>>
IsSome(o) == o # <<>>
Get(o) == o[1]

(* Sequence helpers.                                                       *)

\* s.map(f) followed by a concatenation of the results.
FlatMap(f(_), s) ==
    LET F[i \in 0..Len(s)] == IF i = 0 THEN <<>> ELSE F[i - 1] \o f(s[i])
    IN  F[Len(s)]

\* s.map(f)
Map(f(_), s) == [i \in 1..Len(s) |-> f(s[i])]

\* A slice that keeps everything.
slice0_All(s, n) == s

\* s.slice(0, n)
slice0(s, n) == SubSeq(s, 1, IF Len(s) < n THEN Len(s) ELSE n)

---------------------------------------------------------------------------
(* JavaScript string operations, on sequences of characters.               *)

LowerOf(c) ==
    CASE c = "A" -> "a"
      [] c = "B" -> "b"
      [] c = "Z" -> "z"
      [] OTHER   -> c

toLowerCase(s) == [i \in 1..Len(s) |-> LowerOf(s[i])]

startsWith(s, t) == Len(t) <= Len(s) /\ SubSeq(s, 1, Len(t)) = t

includes(s, t) ==
    \E i \in 0..(Len(s) - Len(t)) : SubSeq(s, i + 1, i + Len(t)) = t

RECURSIVE trimStart(_)
trimStart(s) == IF s # <<>> /\ Head(s) = " " THEN trimStart(Tail(s)) ELSE s

RECURSIVE trimEnd(_)
trimEnd(s) ==
    IF s # <<>> /\ s[Len(s)] = " " THEN trimEnd(SubSeq(s, 1, Len(s) - 1)) ELSE s

trim(s) == trimEnd(trimStart(s))

\* The sentinel parent value 'root'.
root == <<"r", "o", "o", "t">>

---------------------------------------------------------------------------
(* The input: record sets.                                                 *)

\* Words and parent strings of the enumerated family: a case collision
\* ("a", "A"), a word that contains but does not start with "a" ("ba"),
\* a parent that names no entry ("z").
WordPool == { <<"a">>, <<"A">>, <<"b", "a">> }
ParentPool == { root, <<"a">>, <<"A">>, <<"z">> }

\* definition and tags of the i-th record of a document: the definitions
\* differ, the tags are a list, an empty list or missing.
DigitChar(i) ==
    CASE i = 0 -> "0" [] i = 1 -> "1" [] i = 2 -> "2" [] i = 3 -> "3"
      [] i = 4 -> "4" [] i = 5 -> "5" [] i = 6 -> "6" [] i = 7 -> "7"
      [] i = 8 -> "8" [] OTHER -> "9"
DefinitionOf(i) == <<"d", DigitChar(i)>>
TagsOf(i) ==
    CASE i % 3 = 1 -> Some(<<"t1", "t2">>)
      [] i % 3 = 2 -> Some(<<>>)
      [] OTHER     -> None

Entry(i, w, p) ==
    [word |-> w, definition |-> DefinitionOf(i), tags |-> TagsOf(i), parent |-> p]

\* Every document of at most MaxWords records over the pools.
EnumPayloads ==
    UNION { { [i \in 1..n |-> Entry(i, ws[i], ps[i])] :
                ws \in [1..n -> WordPool], ps \in [1..n -> ParentPool] } :
            n \in 0..MaxWords }

\* root > "a" > "ab" > n children "c1".."cn", the first of which has a child
\* (a fourth level), and a record whose parent differs from the word "a"
\* only by case.
Kid(j) == <<"c", DigitChar(j)>>
FanPayload(n) ==
    <<Entry(1, <<"a">>, root), Entry(2, <<"a", "b">>, <<"a">>)>>
    \o [j \in 1..n |-> Entry(2 + j, Kid(j), <<"a", "b">>)]
    \o <<Entry(3 + n, <<"b", "a">>, Kid(1)), Entry(4 + n, <<"B">>, <<"A">>)>>

FanPayloads == { FanPayload(n) : n \in 0..MaxKids }

\* The property names an object literal inherits from Object.prototype
\* ('constructor', 'toString', '__proto__', ...), one for all: a name is a
\* string of one "character".
ObjectPrototypeKeys == { <<"constructor">> }

\* A record whose parent string is such a name (and names no entry).
ProtoPayloads ==
    { <<Entry(1, <<"a">>, k)>> : k \in ObjectPrototypeKeys }
    \cup { <<Entry(1, <<"a">>, root), Entry(2, <<"b", "a">>, k)>> :
              k \in ObjectPrototypeKeys }

\* Parent pointers that form a cycle below the root: "a" under the root,
\* "ab" under "a", and a second "a" under "ab".
CyclePayloads ==
    { <<Entry(1, <<"a">>, root), Entry(2, <<"a", "b">>, <<"a">>),
        Entry(3, <<"a">>, <<"a", "b">>)>> }

Payloads == EnumPayloads \cup FanPayloads \cup ProtoPayloads \cup CyclePayloads

\* What the user can have typed into the search box.
InputValues == { <<>>, <<" ">>, <<"a">>, <<"A", " ">>, <<"b">>, <<"z">> }

---------------------------------------------------------------------------
(* LOGIC: the two lookups, the same in both programs.                      *)

\* A getChildren that compares the parent strings with the case ignored.
getChildren_IgnoreCase(ws, parent) ==
    SelectSeq(ws, LAMBDA w : toLowerCase(w.parent) = toLowerCase(parent))

getChildren(ws, parent) == SelectSeq(ws, LAMBDA w : w.parent = parent)

\* A findWord that returns the last entry that matches.
findWord_Last(ws, word) ==
    LET hits == { i \in 1..Len(ws) : toLowerCase(ws[i].word) = toLowerCase(word) }
    IN  IF hits = {} THEN None
        ELSE Some(ws[CHOOSE i \in hits : \A j \in hits : j <= i])

findWord(ws, word) ==
    LET hits == { i \in 1..Len(ws) : toLowerCase(ws[i].word) = toLowerCase(word) }
    IN  IF hits = {} THEN None
        ELSE Some(ws[CHOOSE i \in hits : \A j \in hits : i <= j])

---------------------------------------------------------------------------
(* The DOM.  An element of the tree region has its class list, its text,   *)
(* its data-word attribute, the word its own click listener selects (the   *)
(* page-inline script attaches one per node), whether it is dimmed, and    *)
(* its child elements.  A fixed text is a string of one "character".       *)

Element(cls, text, word, click, dim, children) ==
    [cls |-> cls, text |-> text, word |-> word, click |-> click,
     dim |-> dim, children |-> children]

\* <div class="no-word">text</div>
NoWord(text) == Element({"no-word"}, <<text>>, None, None, FALSE, <<>>)

\* <div class="level">children</div>
LevelDiv(children) == Element({"level"}, <<>>, None, None, FALSE, children)

\* Every element below a list of elements, in document order.
RECURSIVE Descendants(_)
Descendants(els) ==
    LET F[i \in 0..Len(els)] ==
            IF i = 0 THEN <<>>
            ELSE F[i - 1] \o <<els[i]>> \o Descendants(els[i].children)
    IN  F[Len(els)]

\* The content of the definition panel: its heading, its text, its tag
\* strip and its parent link, each there or not.
Panel(h2, p, tags, parentLink) ==
    [h2 |-> h2, p |-> p, tags |-> tags, parentLink |-> parentLink]

\* The panel of the page's static markup, which no source file holds.
StaticPanel == Panel(Some(<<"(static markup)">>), None, None, None)

\* The select-a-word prompt.
Placeholder ==
    Panel(Some(<<"Select a word">>),
          Some(<<"Click any word in the tree to see its definition.">>),
          None, None)

\* innerHTML = ''
BlankPanel == Panel(None, None, None, None)

---------------------------------------------------------------------------
(* String.prototype.localeCompare on the model's characters: the strings   *)
(* are compared letter by letter without regard to case (a space before a  *)
(* digit before a letter, a prefix before its extensions), and strings     *)
(* with the same letters by the first difference of case, the lower-case   *)
(* letter first.                                                           *)

Alphabet ==
    <<" ", "0", "1", "2", "3", "4", "5", "6", "7", "8", "9",
      "a", "b", "c", "d", "o", "r", "t", "z">>

Rank(c) == CHOOSE i \in 1..Len(Alphabet) : Alphabet[i] = LowerOf(c)

\* -1, 0 or 1 by the first position where the letters differ.
RECURSIVE comparePrimary(_, _)
comparePrimary(a, b) ==
    IF a = <<>> /\ b = <<>> THEN 0
    ELSE IF a = <<>> THEN -1
    ELSE IF b = <<>> THEN 1
    ELSE IF Rank(Head(a)) < Rank(Head(b)) THEN -1
    ELSE IF Rank(Head(a)) > Rank(Head(b)) THEN 1
    ELSE comparePrimary(Tail(a), Tail(b))

CaseRank(c) == IF LowerOf(c) = c THEN 0 ELSE 1

\* -1, 0 or 1 by the first position where the case differs.
RECURSIVE compareCase(_, _)
compareCase(a, b) ==
    IF a = <<>> /\ b = <<>> THEN 0
    ELSE IF a = <<>> THEN -1
    ELSE IF b = <<>> THEN 1
    ELSE IF CaseRank(Head(a)) < CaseRank(Head(b)) THEN -1
    ELSE IF CaseRank(Head(a)) > CaseRank(Head(b)) THEN 1
    ELSE compareCase(Tail(a), Tail(b))

localeCompare(a, b) ==
    LET primary == comparePrimary(a, b)
    IN  IF primary # 0 THEN primary ELSE compareCase(a, b)

---------------------------------------------------------------------------
(* RENDERING of the page-inline script (src/unnamed/part_001).             *)

\* Number of level-2 children shown before the "+N more" marker.
ShownKids == 3

P_createWordElement(wordData, active, term) ==
    Element({"word-node"}
              \cup (IF active THEN {"active"} ELSE {})
              \cup (IF term # <<>> /\ ~startsWith(toLowerCase(wordData.word), term)
                    THEN {"hidden"} ELSE {}),
            wordData.word, Some(wordData.word), Some(wordData.word), FALSE, <<>>)

\* The marker node: `+${gg.length - 3} more...`, opacity 0.5, no listener.
P_more(n) ==
    Element({"word-node"}, <<"+", DigitChar(n), " more...">>, None, None, TRUE, <<>>)

\* A sub level that goes on to the children of the level-2 nodes.
P_subLevel_Deeper(ws, cur, term, g) ==
    LET gg == getChildren(ws, g.word)
    IN  IF gg # <<>>
        THEN <<LevelDiv(
                 FlatMap(LAMBDA ggChild :
                            <<P_createWordElement(ggChild, Some(ggChild.word) = cur, term)>>
                            \o (IF getChildren(ws, ggChild.word) # <<>>
                                THEN <<LevelDiv(
                                         Map(LAMBDA x : P_createWordElement(x, FALSE, term),
                                             getChildren(ws, ggChild.word)))>>
                                ELSE <<>>),
                         slice0(gg, ShownKids))
                 \o (IF Len(gg) > ShownKids
                     THEN <<P_more(Len(gg) - ShownKids)>> ELSE <<>>))>>
        ELSE <<>>

\* A sub level whose marker also appears when nothing is left out.
P_subLevel_OffByOne(ws, cur, term, g) ==
    LET gg == getChildren(ws, g.word)
    IN  IF gg # <<>>
        THEN <<LevelDiv(
                 Map(LAMBDA ggChild :
                        P_createWordElement(ggChild, Some(ggChild.word) = cur, term),
                     slice0(gg, ShownKids))
                 \o (IF Len(gg) >= ShownKids
                     THEN <<P_more(Len(gg) - ShownKids)>> ELSE <<>>))>>
        ELSE <<>>

\* The sub level of one level-1 node g: its first children and the marker.
P_subLevel(ws, cur, term, g) ==
    LET gg == getChildren(ws, g.word)
    IN  IF gg # <<>>
        THEN <<LevelDiv(
                 Map(LAMBDA ggChild :
                        P_createWordElement(ggChild, Some(ggChild.word) = cur, term),
                     slice0(gg, ShownKids))
                 \o (IF Len(gg) > ShownKids
                     THEN <<P_more(Len(gg) - ShownKids)>> ELSE <<>>))>>
        ELSE <<>>

\* What the loop body of renderDefaultTree appends for one kid.
P_kidElements(ws, cur, term, level, kid) ==
    <<P_createWordElement(kid, Some(kid.word) = cur, term)>>
    \o (IF level < 2
        THEN LET grand == getChildren(ws, kid.word)
             IN  IF grand # <<>>
                 THEN <<LevelDiv(
                          Map(LAMBDA g :
                                 P_createWordElement(g, Some(g.word) = cur, term),
                              grand)
                          \o (IF level < 1
                              THEN FlatMap(LAMBDA g : P_subLevel(ws, cur, term, g),
                                           grand)
                              ELSE <<>>))>>
                 ELSE <<>>
        ELSE <<>>)

P_renderDefaultTree(ws, cur, term, parent, level) ==
    LET kids == getChildren(ws, parent)
    IN  IF kids = <<>> /\ level = 0
        THEN <<NoWord("No data to display")>>
        ELSE FlatMap(LAMBDA kid : P_kidElements(ws, cur, term, level, kid), kids)

\* The comparator of the search results: a prefix match first, then by word.
P_compareMatches(term, a, b) ==
    LET aStart == startsWith(toLowerCase(a.word), term)
        bStart == startsWith(toLowerCase(b.word), term)
    IN  IF aStart /\ ~bStart THEN -1
        ELSE IF ~aStart /\ bStart THEN 1
        ELSE localeCompare(a.word, b.word)

\* Array.prototype.sort with that comparator: a stable sort.
RECURSIVE P_sort(_, _)
P_sort(term, s) ==
    IF s = <<>> THEN <<>>
    ELSE LET rest == P_sort(term, SubSeq(s, 1, Len(s) - 1))
             x == s[Len(s)]
             \* x goes after the last element that does not sort after it
             keep == { i \in 1..Len(rest) : P_compareMatches(term, rest[i], x) <= 0 }
             k == IF keep = {} THEN 0
                  ELSE CHOOSE i \in keep : \A j \in keep : j <= i
         IN  SubSeq(rest, 1, k) \o <<x>> \o SubSeq(rest, k + 1, Len(rest))

P_matches(ws, term) ==
    P_sort(term, SelectSeq(ws, LAMBDA w : includes(toLowerCase(w.word), term)))

\* The keys of byParent, in the order Object.entries lists them: the order
\* of their first use (no parent string of the model is an integer index).
P_parentKeys(matches) ==
    LET F[i \in 0..Len(matches)] ==
            IF i = 0 THEN <<>>
            ELSE IF \E j \in 1..Len(F[i - 1]) : F[i - 1][j] = matches[i].parent
                 THEN F[i - 1]
                 ELSE Append(F[i - 1], matches[i].parent)
    IN  F[Len(matches)]

\* One group: the header of the parent, found or a stub, and its level.
P_group(ws, term, focusWord, matches, parent) ==
    LET children == SelectSeq(matches, LAMBDA w : w.parent = parent)
        found == findWord(ws, parent)
        parentObj == IF IsSome(found) THEN Get(found) ELSE [word |-> parent]
    IN  <<P_createWordElement(parentObj, Some(parent) = focusWord, term),
          LevelDiv(Map(LAMBDA c :
                          P_createWordElement(c, Some(c.word) = focusWord, term),
                       children))>>

\* (byParent[w.parent] ||= []).push(w) throws a TypeError when w.parent is
\* a name byParent inherits: the value found there is truthy and has no
\* push.  renderTree(focusWord) throws exactly then.
P_renderThrows(ws, term) ==
    /\ term # <<>>
    /\ \E i \in 1..Len(P_matches(ws, term)) :
           P_matches(ws, term)[i].parent \in ObjectPrototypeKeys

\* When the grouping throws nothing has been appended to the container,
\* which renderTree has emptied.
P_renderSearchResults(ws, term, focusWord) ==
    LET matches == P_matches(ws, term)
    IN  IF matches = <<>>
        THEN <<NoWord("No results")>>
        ELSE IF P_renderThrows(ws, term)
        THEN <<>>
        ELSE FlatMap(LAMBDA parent : P_group(ws, term, focusWord, matches, parent),
                     P_parentKeys(matches))

\* renderTree(focusWord): the new content of #treeContainer.
P_renderTree(ws, cur, term, focusWord) ==
    IF term # <<>>
    THEN P_renderSearchResults(ws, term, focusWord)
    ELSE P_renderDefaultTree(ws, cur, term, root, 0)

\* A template that writes the tag strip for every tags array, an empty
\* one included.
P_definitionHTML_EmptyStrip(w) ==
    Panel(Some(w.word), Some(w.definition),
          IF IsSome(w.tags) THEN w.tags ELSE None,
          IF w.parent # <<>> /\ w.parent # root THEN Some(w.parent) ELSE None)

\* The definition panel selectWord writes for the entry w.
P_definitionHTML(w) ==
    Panel(Some(w.word), Some(w.definition),
          IF IsSome(w.tags) /\ Get(w.tags) # <<>> THEN w.tags ELSE None,
          IF w.parent # <<>> /\ w.parent # root THEN Some(w.parent) ELSE None)

---------------------------------------------------------------------------
(* The page-inline script (src/unnamed/part_001): its state machine.       *)

\* The variables only script.js has.
scriptVars ==
    <<prefetchedDefinition, timers, timeoutId, nextTimer, hover, bursts, updates>>

\* The script has run to loadData's await: the tree region shows the
\* loading message and the panel still holds the page's markup.
P_Init ==
    /\ payload \in Payloads
    /\ fetch = "pending"
    /\ words = <<>>
    /\ currentWord = None
    /\ searchTerm = <<>>
    /\ treeContainer = <<NoWord("Loading...")>>
    /\ definitionPanel = StaticPanel
    /\ searchInput = <<>>
    /\ prefetchedDefinition = None
    /\ timers = {}
    /\ timeoutId = None
    /\ nextTimer = 1
    /\ hover = None
    /\ bursts = 0
    /\ updates = 0

\* loadData after the await: the response is ok and its body parses.
\* renderTree() runs inside the try: when it throws, the catch writes the
\* error message.
P_loadData ==
    /\ fetch = "pending"
    /\ fetch' = "ok"
    /\ words' = payload
    /\ treeContainer' =
           IF P_renderThrows(payload, searchTerm)
           THEN <<NoWord("Error fetching data.")>>
           ELSE P_renderTree(payload, currentWord, searchTerm, None)
    /\ UNCHANGED <<payload, currentWord, searchTerm, definitionPanel, searchInput,
                   scriptVars>>

\* loadData's catch: the fetch rejects, the status is not ok, or the body
\* does not parse.
P_loadDataFails ==
    /\ fetch = "pending"
    /\ fetch' = "failed"
    /\ treeContainer' = <<NoWord("Error fetching data.")>>
    /\ UNCHANGED <<payload, words, currentWord, searchTerm, definitionPanel,
                   searchInput, scriptVars>>

P_selectWord(word) ==
    LET w == findWord(words, word)
    IN  /\ currentWord' = Some(word)
        /\ IF w = None
           THEN UNCHANGED <<definitionPanel, treeContainer>>
           ELSE /\ definitionPanel' = P_definitionHTML(Get(w))
                /\ treeContainer' =
                       P_renderTree(words, Some(word), searchTerm, Some(word))
        /\ UNCHANGED <<payload, fetch, words, searchTerm, searchInput, scriptVars>>

\* A click on a node of the tree: the listener createWordElement attached.
P_clickNode ==
    \E i \in 1..Len(Descendants(treeContainer)) :
        LET node == Descendants(treeContainer)[i]
        IN  /\ IsSome(node.click)
            /\ P_selectWord(Get(node.click))

\* A click on the parent link of the definition panel.
P_clickParentLink ==
    /\ IsSome(definitionPanel.parentLink)
    /\ P_selectWord(Get(definitionPanel.parentLink))

\* An input listener whose render sorts wordsData itself, not a copy.
P_searchInput_SortsInPlace(v) ==
    LET term == toLowerCase(trim(v))
        cur == IF term = <<>> THEN None ELSE currentWord
        sorted == IF term = <<>> THEN words ELSE P_sort(term, words)
    IN  /\ searchInput' = v
        /\ searchTerm' = term
        /\ currentWord' = cur
        /\ words' = sorted
        /\ treeContainer' = P_renderTree(sorted, cur, term, cur)
        /\ definitionPanel' =
               IF P_renderThrows(sorted, term) THEN definitionPanel
               ELSE IF IsSome(cur) THEN BlankPanel ELSE Placeholder
        /\ UNCHANGED <<payload, fetch, scriptVars>>

\* The input listener of the search box, for the new value v of the box.
P_searchInput(v) ==
    LET term == toLowerCase(trim(v))
        cur == IF term = <<>> THEN None ELSE currentWord
    IN  /\ searchInput' = v
        /\ searchTerm' = term
        /\ currentWord' = cur
        /\ treeContainer' = P_renderTree(words, cur, term, cur)
        \* a throw of renderTree ends the listener before the panel is written
        /\ definitionPanel' =
               IF P_renderThrows(words, term) THEN definitionPanel
               ELSE IF IsSome(cur) THEN BlankPanel ELSE Placeholder
        /\ UNCHANGED <<payload, fetch, words, scriptVars>>

P_Next ==
    \/ P_loadData
    \/ P_loadDataFails
    \/ P_clickNode
    \/ P_clickParentLink
    \/ \E v \in InputValues \ {searchInput} : P_searchInput(v)

SpecPage == P_Init /\ [][P_Next]_vars

---------------------------------------------------------------------------
(* RENDERING of src/script.js.                                             *)

\* The record sets script.js is run on: none; a root word with a child; a
\* word whose parent names no entry; two words that differ only by case;
\* two root words, the one that only contains "a" before the one that
\* begins with it.
ScriptPayloads ==
    { <<>>,
      <<Entry(1, <<"a">>, root), Entry(2, <<"b", "a">>, <<"a">>)>>,
      <<Entry(1, <<"a">>, <<"z">>)>>,
      <<Entry(1, <<"a">>, root), Entry(2, <<"A">>, <<"a">>)>>,
      <<Entry(1, <<"b", "a">>, root), Entry(2, <<"a">>, root)>> }

\* cur is state.currentWord: an optional entry.
createWordElement(wordData, cur) ==
    Element({"word-node"}
              \cup (IF IsSome(cur) /\ wordData.word = Get(cur).word
                    THEN {"active"} ELSE {}),
            wordData.word, Some(wordData.word), None, FALSE, <<>>)

\* renderTree(): the new content of #treeContainer.
renderTree(ws, cur, term) ==
    IF term # <<>>
    THEN LET searchResults ==
                 SelectSeq(ws, LAMBDA w : includes(toLowerCase(w.word), term))
         IN  IF Len(searchResults) > 0
             THEN Map(LAMBDA word : createWordElement(word, cur), searchResults)
             ELSE <<NoWord("No results found.")>>
    ELSE LET rootWords == getChildren(ws, root)
         IN  IF Len(rootWords) > 0
             THEN Map(LAMBDA word : createWordElement(word, cur), rootWords)
             ELSE <<NoWord("No words to display.")>>

\* generateDefinitionHTML(wordData), wordData an optional entry: '' is the
\* blank panel.
generateDefinitionHTML(wordData) ==
    IF ~IsSome(wordData) THEN BlankPanel
    ELSE LET w == Get(wordData)
         IN  Panel(Some(w.word), Some(w.definition),
                   IF IsSome(w.tags) /\ Len(Get(w.tags)) > 0 THEN w.tags ELSE None,
                   IF w.parent # <<>> /\ w.parent # root
                   THEN Some(w.parent) ELSE None)

\* renderDefinitionPanel() of the second version of script.js (lines
\* 180-344, the script without the prefetch): the panel built element by
\* element for state.currentWord, an optional entry.
S2_renderDefinitionPanel(cur) ==
    IF ~IsSome(cur) THEN Placeholder
    ELSE LET w == Get(cur)
         IN  Panel(Some(w.word), Some(w.definition),
                   IF IsSome(w.tags) /\ Len(Get(w.tags)) > 0 THEN w.tags ELSE None,
                   IF w.parent # <<>> /\ w.parent # root
                   THEN Some(w.parent) ELSE None)

\* if (state.prefetchedDefinition): neither null nor ''.
Truthy(prefetched) == IsSome(prefetched) /\ Get(prefetched) # BlankPanel

\* renderDefinitionPanel(): the new content of #definitionPanel.
renderDefinitionPanel(prefetched, cur) ==
    IF Truthy(prefetched) THEN Get(prefetched)
    ELSE IF ~IsSome(cur) THEN Placeholder
    ELSE generateDefinitionHTML(cur)

\* A panel render that displays the cache and keeps it.
clearAfterUse_Kept(prefetched) == prefetched

\* renderDefinitionPanel(): state.prefetchedDefinition after it.
clearAfterUse(prefetched) ==
    IF Truthy(prefetched) THEN None ELSE prefetched

\* A debounce that does not cancel the pending timeout.
clearTimeout_Skipped(ts, id) == ts

\* clearTimeout(timeoutId) on the pending timeouts ts.
clearTimeout(ts, id) == ts \ { t \in ts : Some(t) = id }

---------------------------------------------------------------------------
(* src/script.js: its state machine.                                       *)

\* init() has run to loadData's await.  The regions hold the page's
\* markup, which no source file holds: an empty tree region.
Init ==
    /\ payload \in ScriptPayloads
    /\ fetch = "pending"
    /\ words = <<>>
    /\ currentWord = None
    /\ searchTerm = <<>>
    /\ treeContainer = <<>>
    /\ definitionPanel = StaticPanel
    /\ searchInput = <<>>
    /\ prefetchedDefinition = None
    /\ timers = {}
    /\ timeoutId = None
    /\ nextTimer = 1
    /\ hover = None
    /\ bursts = 0
    /\ updates = 0

\* render(): renderTree() then renderDefinitionPanel().  The nodes of the
\* tree are new elements: the one the pointer was over is no longer in the
\* document.
render(ws, cur) ==
    /\ treeContainer' = renderTree(ws, cur, searchTerm)
    /\ definitionPanel' = renderDefinitionPanel(prefetchedDefinition, cur)
    /\ prefetchedDefinition' = clearAfterUse(prefetchedDefinition)
    /\ hover' = None

\* loadData after the await: the response is ok and its body parses.
loadData ==
    /\ fetch = "pending"
    /\ fetch' = "ok"
    /\ words' = payload
    /\ render(payload, currentWord)
    /\ UNCHANGED <<payload, currentWord, searchTerm, searchInput, timers,
                   timeoutId, nextTimer, bursts, updates>>

\* loadData's catch.
loadDataFails ==
    /\ fetch = "pending"
    /\ fetch' = "failed"
    /\ treeContainer' =
           <<NoWord("Error loading data. Please try again later.")>>
    /\ hover' = None
    /\ UNCHANGED <<payload, words, currentWord, searchTerm, definitionPanel,
                   searchInput, prefetchedDefinition, timers, timeoutId,
                   nextTimer, bursts, updates>>

\* A debounce that, when a timeout is pending, cancels it and sets none.
debounce_CancelOnly(v) ==
    /\ nextTimer <= MaxKeys
    /\ searchInput' = v
    /\ timers' = IF timers = {} THEN {nextTimer} ELSE clearTimeout(timers, timeoutId)
    /\ timeoutId' = IF timers = {} THEN Some(nextTimer) ELSE None
    /\ nextTimer' = nextTimer + 1
    /\ bursts' = IF timers = {} THEN bursts + 1 ELSE bursts
    /\ UNCHANGED <<payload, fetch, words, currentWord, searchTerm, treeContainer,
                   definitionPanel, prefetchedDefinition, hover, updates>>

\* An input event of the search box, whose value is now v: the function
\* debounce returned clears the timeout it holds and sets a new one.
debounce(v) ==
    /\ nextTimer <= MaxKeys
    /\ searchInput' = v
    /\ timers' = clearTimeout(timers, timeoutId) \cup {nextTimer}
    /\ timeoutId' = Some(nextTimer)
    /\ nextTimer' = nextTimer + 1
    /\ bursts' = IF timers = {} THEN bursts + 1 ELSE bursts
    /\ UNCHANGED <<payload, fetch, words, currentWord, searchTerm, treeContainer,
                   definitionPanel, prefetchedDefinition, hover, updates>>

\* A debounced handler that drops the selection when the box is cleared,
\* as the input listener of the page-inline script does.
handleSearchInput_ClearsSelection(t) ==
    /\ t \in timers
    /\ timers' = timers \ {t}
    /\ searchTerm' = toLowerCase(trim(searchInput))
    /\ currentWord' = IF searchTerm' = <<>> THEN None ELSE currentWord
    /\ treeContainer' = renderTree(words, currentWord', searchTerm')
    /\ definitionPanel' = IF IsSome(currentWord') THEN BlankPanel ELSE Placeholder
    /\ hover' = None
    /\ updates' = updates + 1
    /\ UNCHANGED <<payload, fetch, words, searchInput, prefetchedDefinition,
                   timeoutId, nextTimer, bursts>>

\* The timeout t expires: the debounced handleSearchInput runs and reads
\* the value the box has now.  renderTree() replaces the nodes of the tree:
\* the node the pointer was over leaves the document, and no mouseout of
\* it can reach the listener of #treeContainer.
handleSearchInput(t) ==
    /\ t \in timers
    /\ timers' = timers \ {t}
    /\ searchTerm' = toLowerCase(trim(searchInput))
    /\ treeContainer' = renderTree(words, currentWord, searchTerm')
    /\ hover' = None
    /\ updates' = updates + 1
    /\ UNCHANGED <<payload, fetch, words, currentWord, definitionPanel,
                   searchInput, prefetchedDefinition, timeoutId, nextTimer,
                   bursts>>

\* A mouseover that also shows what it has computed.
handleTreeMouseover_ShowsAtOnce(i) ==
    /\ hover = None
    /\ i \in 1..Len(treeContainer)
    /\ "word-node" \in treeContainer[i].cls
    /\ hover' = Some(i)
    /\ prefetchedDefinition' =
           Some(generateDefinitionHTML(findWord(words, Get(treeContainer[i].word))))
    /\ definitionPanel' = Get(prefetchedDefinition')
    /\ UNCHANGED <<payload, fetch, words, currentWord, searchTerm, treeContainer,
                   searchInput, timers, timeoutId, nextTimer, bursts, updates>>

\* The pointer comes over the i-th node of the tree.
handleTreeMouseover(i) ==
    /\ hover = None
    /\ i \in 1..Len(treeContainer)
    /\ "word-node" \in treeContainer[i].cls
    /\ hover' = Some(i)
    /\ prefetchedDefinition' =
           Some(generateDefinitionHTML(findWord(words, Get(treeContainer[i].word))))
    /\ UNCHANGED <<payload, fetch, words, currentWord, searchTerm, treeContainer,
                   definitionPanel, searchInput, timers, timeoutId, nextTimer,
                   bursts, updates>>

\* The pointer leaves the node it is over.
handleTreeMouseout ==
    /\ IsSome(hover)
    /\ hover' = None
    /\ prefetchedDefinition' = None
    /\ UNCHANGED <<payload, fetch, words, currentWord, searchTerm, treeContainer,
                   definitionPanel, searchInput, timers, timeoutId, nextTimer,
                   bursts, updates>>

\* handleTreeClick, the target a word node: the node under the pointer,
\* which a mouseover has announced.
handleTreeClickNode ==
    /\ IsSome(hover)
    /\ LET word == Get(treeContainer[Get(hover)].word)
           found == findWord(words, word)
       IN  /\ currentWord' = found
           /\ render(words, found)
    /\ UNCHANGED <<payload, fetch, words, searchTerm, searchInput, timers,
                   timeoutId, nextTimer, bursts, updates>>

\* handleTreeClick, the target the parent link of the definition panel;
\* the pointer is over no node of the tree.  The listener is the one of
\* #treeContainer: the click is taken to reach it, as this branch of the
\* handler supposes.
handleTreeClickParentLink ==
    /\ hover = None
    /\ IsSome(definitionPanel.parentLink)
    /\ LET parentWord == Get(definitionPanel.parentLink)
           found == findWord(words, parentWord)
       IN  /\ currentWord' = found
           /\ render(words, found)
    /\ UNCHANGED <<payload, fetch, words, searchTerm, searchInput, timers,
                   timeoutId, nextTimer, bursts, updates>>

Next ==
    \/ loadData
    \/ loadDataFails
    \/ \E v \in InputValues \ {searchInput} : debounce(v)
    \/ \E t \in timers : handleSearchInput(t)
    \/ \E i \in 1..Len(treeContainer) : handleTreeMouseover(i)
    \/ handleTreeMouseout
    \/ handleTreeClickNode
    \/ handleTreeClickParentLink

Spec == Init /\ [][Next]_vars

\* setTimeout(f, delay): the browser runs the callback of a timeout that
\* stays pending, once its delay has passed.
TimersFire == WF_vars(\E t \in timers : handleSearchInput(t))

\* script.js with the browser's timers running.
SpecLive == Init /\ [][Next]_vars /\ TimersFire

---------------------------------------------------------------------------
(* Vocabulary of the properties.                                           *)

\* The elements below els, each with the number of level divs around it.
RECURSIVE WithDepth(_, _)
WithDepth(els, d) ==
    LET F[i \in 0..Len(els)] ==
            IF i = 0 THEN <<>>
            ELSE F[i - 1] \o <<[el |-> els[i], depth |-> d]>>
                 \o WithDepth(els[i].children, d + 1)
    IN  F[Len(els)]

Range(s) == { s[i] : i \in 1..Len(s) }

\* The word nodes of the displayed tree that show a word (not the marker).
ShownNodes == { n \in Range(WithDepth(treeContainer, 0)) : IsSome(n.el.word) }

\* The marker nodes of the displayed tree.
IsMarker(el) == "word-node" \in el.cls /\ ~IsSome(el.word)

\* The entries at level d of the tree the parent strings describe: level 0
\* are the children of the root sentinel.
RECURSIVE LevelEntries(_, _)
LevelEntries(ws, d) ==
    IF d = 0 THEN { e \in Range(ws) : e.parent = root }
    ELSE { e \in Range(ws) : \E q \in LevelEntries(ws, d - 1) : e.parent = q.word }

\* No two records have the same word, case ignored.
UniqueWords(ws) ==
    \A i, j \in 1..Len(ws) :
        toLowerCase(ws[i].word) = toLowerCase(ws[j].word) => i = j

\* The record set is as the data model wants it: unique words, and every
\* parent the root sentinel or, case ignored, the word of another record.
WellFormed(ws) ==
    /\ UniqueWords(ws)
    /\ \A i \in 1..Len(ws) :
           \/ ws[i].parent = root
           \/ /\ IsSome(findWord(ws, ws[i].parent))
              /\ Get(findWord(ws, ws[i].parent)) # ws[i]

\* The page shows the default tree of a loaded record set.
P_DefaultMode == fetch = "ok" /\ searchTerm = <<>>

\* The words a click can hand to selectWord in this state.
P_Selectable ==
    { Get(el.click) : el \in { x \in Range(Descendants(treeContainer)) : IsSome(x.click) } }
    \cup Range(definitionPanel.parentLink)

---------------------------------------------------------------------------
(* C1.  Selecting a word that has no entry is a no-op: currentWord and the *)
(* content of the definition panel are the same after the select as        *)
(* before it.  The page-inline script assigns currentWord before it looks  *)
(* the word up.                                                            *)
C1_UnknownSelectIsNoop ==
    [][\A w \in P_Selectable :
          (findWord(words, w) = None /\ P_selectWord(w))
              => (currentWord' = currentWord /\ definitionPanel' = definitionPanel)]_vars

(* C2.  Whenever a select of an entry completes, the definition panel      *)
(* shows the content computed from that entry, never the prefetched        *)
(* content of another word.                                                *)
C2_NoPrefetchLeak ==
    [][((handleTreeClickNode \/ handleTreeClickParentLink) /\ IsSome(currentWord'))
          => definitionPanel' = generateDefinitionHTML(currentWord')]_vars

(* C3.  Once the load has failed the tree region shows the error message   *)
(* in every later state.                                                   *)
C3_FailedLoadIsTerminal ==
    fetch = "failed"
        => treeContainer = <<NoWord("Error loading data. Please try again later.")>>

(* C4.  The search input is debounced, the last keystroke winning: at most *)
(* one timer is pending and it is the one the last keystroke set; a        *)
(* keystroke changes neither the search term nor the tree; the term        *)
(* changes only when the pending timer expires, which leaves none pending; *)
(* and every burst of keystrokes (one that began with no timer pending)    *)
(* has caused one update or has its one timer pending.                     *)
C4_Debounce ==
    /\ [](/\ Cardinality(timers) <= 1
          /\ \A t \in timers : timeoutId = Some(t)
          /\ updates + Cardinality(timers) = bursts)
    /\ [][nextTimer' # nextTimer
            => /\ searchTerm' = searchTerm
               /\ treeContainer' = treeContainer
               /\ timers' = {nextTimer}]_vars
    /\ [][(searchTerm' # searchTerm \/ updates' # updates)
            => /\ timers # {}
               /\ timers' = {}
               /\ updates' = updates + 1
               /\ searchTerm' = toLowerCase(trim(searchInput))]_vars

\* A burst of at least two keystrokes has caused exactly one update.
C4_Witness ==
    nextTimer >= 3 /\ bursts = 1 /\ updates = 1 /\ timers = {} /\ searchTerm # <<>>

(* C5.  The default tree shows only entries at levels 0, 1 and 2 below the *)
(* root sentinel: every shown node lies under at most two level divs and   *)
(* shows the word of an entry of that level, so nothing is shown as a      *)
(* child of a level-2 node.                                                *)
C5_ThreeLevels ==
    P_DefaultMode
        => \A n \in ShownNodes :
               /\ n.depth <= 2
               /\ \E e \in LevelEntries(words, n.depth) : Some(e.word) = n.el.word

\* A record set with an entry at the fourth level only is shown as the
\* default tree, down to its level 2.
C5_Witness ==
    /\ P_DefaultMode
    /\ \E n \in ShownNodes : n.depth = 2
    /\ \E e \in LevelEntries(words, 3) :
           /\ \A d \in 0..2 : e \notin LevelEntries(words, d)
           /\ \A n \in ShownNodes : n.el.word # Some(e.word)

(* C6.  Level-2 truncation in the default tree: under every level-1 node   *)
(* with n children, all n are shown and no marker when n <= 3, and when    *)
(* n > 3 the first 3 in source order followed by one marker whose label    *)
(* states the remainder n - 3; a level-1 node without children has no sub  *)
(* level.                                                                  *)
C6_Truncation ==
    P_DefaultMode
        => \A i \in 1..Len(treeContainer) :
               "level" \in treeContainer[i].cls
                   => LET L == treeContainer[i].children
                          subs == SelectSeq(L, LAMBDA x : "level" \in x.cls)
                          withKids ==
                              SelectSeq(L, LAMBDA x :
                                  /\ IsSome(x.word)
                                  /\ getChildren(words, Get(x.word)) # <<>>)
                      IN  /\ Len(subs) = Len(withKids)
                          /\ \A j \in 1..Len(subs) :
                                 LET kids == getChildren(words, Get(withKids[j].word))
                                     n == Len(kids)
                                     shown == subs[j].children
                                 IN  IF n <= 3
                                     THEN /\ Len(shown) = n
                                          /\ \A k \in 1..n :
                                                 shown[k].word = Some(kids[k].word)
                                     ELSE /\ Len(shown) = 4
                                          /\ \A k \in 1..3 :
                                                 shown[k].word = Some(kids[k].word)
                                          /\ IsMarker(shown[4])
                                          /\ shown[4].text =
                                                 <<"+", DigitChar(n - 3), " more...">>

\* The default tree shows a truncated sub level and its marker.
C6_Witness ==
    /\ P_DefaultMode
    /\ \E n \in Range(WithDepth(treeContainer, 0)) :
           /\ n.depth = 2
           /\ IsMarker(n.el)
           /\ n.el.text = <<"+", "1", " more...">>

(* C7.  Parent navigation round trip: with an entry c selected and shown,  *)
(* activating the parent link makes the selection the entry whose word     *)
(* matches c.parent; when c.parent resolves to no entry the selection      *)
(* stays c.                                                                *)
C7_ParentRoundTrip ==
    [][(/\ IsSome(currentWord)
        /\ IsSome(findWord(words, Get(currentWord)))
        /\ definitionPanel = P_definitionHTML(Get(findWord(words, Get(currentWord))))
        /\ P_clickParentLink)
          => LET found == findWord(words, Get(definitionPanel.parentLink))
             IN  IF IsSome(found)
                 THEN /\ IsSome(currentWord')
                      /\ findWord(words, Get(currentWord')) = found
                 ELSE currentWord' = currentWord]_vars

(* C8.  Every successful select of an entry e re-renders both views:       *)
(* afterwards exactly the displayed tree nodes of e are marked active and  *)
(* the definition panel shows e, whatever the case of the string e was     *)
(* looked up with.  Stated for the well-formed record sets, where a node's *)
(* word names one entry.                                                   *)
C8_SelectRendersBoth ==
    [][\A w \in P_Selectable :
          (WellFormed(words) /\ IsSome(findWord(words, w)) /\ P_selectWord(w))
              => LET e == Get(findWord(words, w))
                 IN  /\ definitionPanel' = P_definitionHTML(e)
                     /\ \A el \in Range(Descendants(treeContainer')) :
                            IsSome(el.word)
                                => ("active" \in el.cls <=> el.word = Some(e.word))]_vars

(* C9.  After a successful load the definition panel is in one of two      *)
(* states: the select-a-word prompt (or the page's markup, before the      *)
(* first render) when no entry is selected, the definition of the selected *)
(* entry when one is; it is never blank and never shows another word.      *)
C9_PanelStates ==
    LET selected ==
            IF IsSome(currentWord) THEN findWord(words, Get(currentWord)) ELSE None
    IN  fetch = "ok"
            => IF selected = None
               THEN definitionPanel \in {Placeholder, StaticPanel}
               ELSE definitionPanel = P_definitionHTML(Get(selected))

(* C10.  The three empty outcomes render three different messages: a       *)
(* loaded record set without records, a record set without an entry under  *)
(* the root sentinel, and a search term without matches.                   *)
C10_DistinctEmptyMessages ==
    LET noRecords == P_renderTree(<<>>, None, <<>>, None)
        noRoot == P_renderTree(<<Entry(1, <<"a">>, <<"z">>)>>, None, <<>>, None)
        noRootChildren ==
            /\ words # <<>>
            /\ getChildren(words, root) = <<>>
            /\ searchTerm = <<>>
        noMatches == searchTerm # <<>> /\ P_matches(words, searchTerm) = <<>>
    IN  fetch = "ok"
            => /\ noRootChildren => treeContainer # noRecords
               /\ noMatches => (treeContainer # noRecords /\ treeContainer # noRoot)

---------------------------------------------------------------------------
(* Vocabulary of the search properties.                                    *)

\* The page shows the search results of a loaded record set.
P_SearchMode == fetch = "ok" /\ searchTerm # <<>>

\* The word w contains the term t at some position, case ignored.
ContainsTerm(w, t) ==
    \E i \in 0..(Len(w) - Len(t)) :
        \A k \in 1..Len(t) : LowerOf(w[i + k]) = LowerOf(t[k])

\* The word w begins with the term t, case ignored.
BeginsWithTerm(w, t) ==
    Len(t) <= Len(w) /\ \A k \in 1..Len(t) : LowerOf(w[k]) = LowerOf(t[k])

\* The nodes of the search results that stand for a match: the nodes inside
\* the level divs, in document order.  The nodes between the level divs
\* are the group headers.
P_MatchNodes ==
    LET F[i \in 0..Len(treeContainer)] ==
            IF i = 0 THEN <<>>
            ELSE IF "level" \in treeContainer[i].cls
                 THEN F[i - 1] \o treeContainer[i].children
                 ELSE F[i - 1]
    IN  F[Len(treeContainer)]

P_HeaderNodes == SelectSeq(treeContainer, LAMBDA el : "word-node" \in el.cls)

(* C11.  In search mode every node that stands for a match is shown        *)
(* without the hidden mark, and a node carries the hidden mark only if it  *)
(* is a group header whose word does not contain the term.  The page marks *)
(* hidden every node whose word does not begin with the term.              *)
C11_MatchesInFocus ==
    P_SearchMode
        => /\ \A i \in 1..Len(P_MatchNodes) : "hidden" \notin P_MatchNodes[i].cls
           /\ \A i \in 1..Len(P_HeaderNodes) :
                  "hidden" \in P_HeaderNodes[i].cls
                      => ~ContainsTerm(Get(P_HeaderNodes[i].word), searchTerm)

(* C12.  Search results are ordered: of two matches the one whose word     *)
(* begins with the term is shown before the one whose word only contains   *)
(* it, and two matches of the same class are shown in the order of their   *)
(* words.  script.js shows the matches in load order.                      *)
C12_ResultsOrdered ==
    (fetch = "ok" /\ searchTerm # <<>>)
        => LET shown == SelectSeq(treeContainer, LAMBDA el : IsSome(el.word))
               begins(i) == BeginsWithTerm(Get(shown[i].word), searchTerm)
           IN  \A i, j \in 1..Len(shown) :
                   i < j
                       => /\ ~(~begins(i) /\ begins(j))
                          /\ (begins(i) <=> begins(j))
                                 => localeCompare(Get(shown[i].word),
                                                  Get(shown[j].word)) <= 0

\* The indices of the candidates: the records whose word contains the term.
Candidates == { i \in 1..Len(words) : ContainsTerm(words[i].word, searchTerm) }

\* The label of the group of the parent string k: the word of the entry the
\* lookup of k returns, or k itself.
HeaderWord(k) ==
    IF IsSome(findWord(words, k)) THEN Get(findWord(words, k)).word ELSE k

(* C13.  In search mode the candidates are clustered by their parent       *)
(* string: the tree is a sequence of groups (a header, then a level div),  *)
(* one group for every parent string of a candidate; the level div of the  *)
(* group of k shows exactly the candidates whose parent is k, each once;   *)
(* and the header of the group is the entry the case-insensitive lookup    *)
(* of k returns or, when there is none, a stub labelled k.  The page's     *)
(* grouping throws on a parent string that is the name of a property every *)
(* object inherits, and then shows no group at all.                        *)
C13_GroupedByParent ==
    (P_SearchMode /\ Candidates # {})
        => LET keys == { words[i].parent : i \in Candidates }
               nG == Cardinality(keys)
           IN  /\ Len(treeContainer) = 2 * nG
               /\ \E f \in [1..nG -> keys] :
                      /\ \A g, h \in 1..nG : f[g] = f[h] => g = h
                      /\ \A g \in 1..nG :
                             LET header == treeContainer[2 * g - 1]
                                 level == treeContainer[2 * g]
                                 mine == { i \in Candidates : words[i].parent = f[g] }
                             IN  /\ "word-node" \in header.cls
                                 /\ header.word = Some(HeaderWord(f[g]))
                                 /\ "level" \in level.cls
                                 /\ Len(level.children) = Cardinality(mine)
                                 /\ \A i \in mine :
                                        Cardinality({ k \in 1..Len(level.children) :
                                            level.children[k].word = Some(words[i].word) })
                                        = Cardinality({ j \in mine :
                                            words[j].word = words[i].word })

(* C14.  For every non-empty search term the entries displayed as matches  *)
(* are exactly the candidates, each as often as the record set holds it;   *)
(* when there is no candidate the tree is the no-results message and       *)
(* shows no node.  On the page the grouping of C13 can throw, and then no  *)
(* candidate is displayed.                                                 *)
C14_MatchesAreCandidates ==
    P_SearchMode
        => IF Candidates = {}
           THEN treeContainer = <<NoWord("No results")>>
           ELSE /\ Len(P_MatchNodes) = Cardinality(Candidates)
                /\ \A i \in Candidates :
                       Cardinality({ k \in 1..Len(P_MatchNodes) :
                           P_MatchNodes[k].word = Some(words[i].word) })
                       = Cardinality({ j \in Candidates :
                           words[j].word = words[i].word })

\* The elements els without their active marks.
RECURSIVE StripActive(_)
StripActive(els) ==
    [i \in 1..Len(els) |->
        [els[i] EXCEPT !.cls = @ \ {"active"}, !.children = StripActive(@)]]

\* The tree region shows search results: the no-results message, or groups
\* (a header node, then a level div) whose level divs hold the candidates.
P_IsSearchView ==
    \/ treeContainer = <<NoWord("No results")>>
    \/ /\ Len(treeContainer) >= 2
       /\ \A i \in 1..Len(treeContainer) :
              IF i % 2 = 1
              THEN "word-node" \in treeContainer[i].cls
              ELSE "level" \in treeContainer[i].cls
       /\ Len(treeContainer) % 2 = 0
       /\ Len(P_MatchNodes) = Cardinality(Candidates)
       /\ \A k \in 1..Len(P_MatchNodes) :
              \E i \in Candidates : P_MatchNodes[k].word = Some(words[i].word)

\* The tree region shows the default tree of the record set, or its
\* no-data message.
P_IsDefaultView ==
    StripActive(treeContainer)
        = StripActive(P_renderDefaultTree(words, None, <<>>, root, 0))

(* C15.  After a successful load the tree is in search mode exactly when   *)
(* the stored search term is non-empty: it shows search results (or the    *)
(* no-results message) when the term is non-empty and the default tree (or *)
(* the no-data message) when it is empty, so a box cleared to nothing or   *)
(* to white space brings the default tree back.  On the page the grouping  *)
(* of C13 can throw, and the tree then shows neither.                      *)
C15_ModeFollowsTerm ==
    fetch = "ok"
        => IF searchTerm # <<>> THEN P_IsSearchView ELSE P_IsDefaultView

\* A step of script.js that renders the definition panel.
PanelRender == loadData \/ handleTreeClickNode \/ handleTreeClickParentLink

(* C16.  The prefetch cache is one-shot: a render of the definition panel  *)
(* that finds cached content displays it, and after every render of the   *)
(* panel the cache is empty, so that no later render displays the same     *)
(* cached content again.                                                   *)
C16_OneShotCache ==
    [][PanelRender
          => /\ prefetchedDefinition' = None
             /\ prefetchedDefinition # None
                    => definitionPanel' = Get(prefetchedDefinition)]_vars

\* The panel shows content that no computation from currentWord gives:
\* a render has displayed the cache, and the cache is empty.
C16_Witness ==
    /\ fetch = "ok"
    /\ prefetchedDefinition = None
    /\ definitionPanel \notin {Placeholder, StaticPanel}
    /\ definitionPanel # renderDefinitionPanel(None, currentWord)

(* C17.  The record set is written only by the load: it is empty until     *)
(* the load succeeds, the one step that changes it takes it from empty to  *)
(* the whole loaded array, and from then on no click, search input or      *)
(* render (the sort of the search results included) adds, removes,         *)
(* reorders or modifies an entry.                                          *)
C17_RecordsWrittenOnce ==
    /\ [](words = IF fetch = "ok" THEN payload ELSE <<>>)
    /\ [][words' # words
            => /\ fetch = "pending" /\ fetch' = "ok"
               /\ words = <<>> /\ words' = payload]_vars
    /\ [][fetch = "ok" => (fetch' = "ok" /\ words' = words)]_vars

\* Search results are shown whose sort has put the matches in another
\* order than the record set holds them in, and the record set is the
\* loaded array.
C17_Witness ==
    /\ P_SearchMode
    /\ P_IsSearchView
    /\ words = payload
    /\ Cardinality(Candidates) = Len(words)
    /\ P_matches(words, searchTerm) # words

---------------------------------------------------------------------------
(* The two lookups.                                                        *)

\* The strings the lookups are asked for: the words and the parent strings
\* of the pools and of the record set.
Keys ==
    WordPool \cup ParentPool
        \cup { words[i].word : i \in 1..Len(words) }
        \cup { words[i].parent : i \in 1..Len(words) }

\* The strings a and b are the same, case ignored.
EqIgnoreCase(a, b) ==
    Len(a) = Len(b) /\ \A k \in 1..Len(a) : LowerOf(a[k]) = LowerOf(b[k])

(* C18.  For the loaded record set and every parent key p, getChildren(p)  *)
(* is the sequence of the entries whose parent string is p, character for  *)
(* character: as many as there are, each at the place its load order       *)
(* gives it, and the empty sequence when there is none; so for "root".     *)
C18_ChildrenOf ==
    \A p \in Keys :
        LET r == getChildren(words, p)
            I == { i \in 1..Len(words) : words[i].parent = p }
        IN  /\ Len(r) = Cardinality(I)
            /\ \A i \in I : r[Cardinality({ j \in I : j <= i })] = words[i]

\* A loaded record set with entries under the root sentinel, with a parent
\* that has two children, and with two parent strings that differ by case
\* only.
C18_Witness ==
    /\ fetch = "ok"
    /\ getChildren(words, root) # <<>>
    /\ \E p \in Keys : Len(getChildren(words, p)) >= 2
    /\ \E i, j \in 1..Len(words) :
           /\ words[i].parent # words[j].parent
           /\ EqIgnoreCase(words[i].parent, words[j].parent)

(* C19.  findWord is an exact match with the case ignored, the first in    *)
(* load order: for every string it returns the entry of least index whose  *)
(* word equals the string case ignored, and nothing when there is none.    *)
C19_FindFirst ==
    \A q \in Keys :
        LET r == findWord(words, q)
            hits == { i \in 1..Len(words) : EqIgnoreCase(words[i].word, q) }
        IN  IF hits = {} THEN r = None
            ELSE \E i \in hits : (\A j \in hits : i <= j) /\ r = Some(words[i])

\* A loaded record set with two different entries whose words collide,
\* case ignored, and a string that names no entry.
C19_Witness ==
    /\ fetch = "ok"
    /\ \E i, j \in 1..Len(words) :
           /\ i < j
           /\ words[i] # words[j]
           /\ words[i].word # words[j].word
           /\ EqIgnoreCase(words[i].word, words[j].word)
    /\ \E q \in Keys : findWord(words, q) = None

---------------------------------------------------------------------------
(* The size of the default tree.                                           *)

\* The paths of one, two and three records that lead down from the root
\* sentinel through the parent strings.
Paths1 == { i \in 1..Len(words) : words[i].parent = root }
Paths2 ==
    { ij \in Paths1 \X (1..Len(words)) : words[ij[2]].parent = words[ij[1]].word }
Paths3 ==
    { ijk \in Paths2 \X (1..Len(words)) :
          words[ijk[2]].parent = words[ijk[1][2]].word }

\* The number of nodes (word nodes and markers) under d level divs.
NodesAt(d) ==
    Len(SelectSeq(WithDepth(treeContainer, 0),
                  LAMBDA n : n.depth = d /\ "word-node" \in n.el.cls))

(* C20.  The render of the default tree ends for every record set, one     *)
(* whose parent pointers form a cycle or a self-loop included, and what it *)
(* emits is bounded by a traversal of three levels: no element lies under  *)
(* more than two level divs, there are at most as many nodes at level 0,   *)
(* 1 and 2 as there are paths of one, two and three records from the root, *)
(* and no sub level holds more than three nodes and a marker.              *)
C20_BoundedRender ==
    P_DefaultMode
        => /\ \A n \in Range(WithDepth(treeContainer, 0)) :
                  /\ n.depth <= 2
                  /\ (n.depth = 1 /\ "level" \in n.el.cls)
                         => Len(n.el.children) <= ShownKids + 1
           /\ NodesAt(0) <= Cardinality(Paths1)
           /\ NodesAt(1) <= Cardinality(Paths2)
           /\ NodesAt(2) <= Cardinality(Paths3)

\* The default tree of a record set with an entry that is its own parent,
\* shown at level 2 below itself.
C20_Witness ==
    /\ P_DefaultMode
    /\ \E j \in 1..Len(words) :
           /\ words[j].parent = words[j].word
           /\ \E n, m \in ShownNodes :
                  /\ n.depth = 1 /\ n.el.word = Some(words[j].word)
                  /\ m.depth = 2 /\ m.el.word = Some(words[j].word)

---------------------------------------------------------------------------
(* The rendered definition.                                                *)

\* The panel h is the definition of the entry e as it should be: heading
\* and text, a tag strip if and only if e has tags and at least one, with
\* the tags as its chips in their order, and a parent line if and only if
\* e has a parent other than the root sentinel, which the line names.
DefinitionOfEntry(e, h) ==
    /\ h.h2 = Some(e.word)
    /\ h.p = Some(e.definition)
    /\ IsSome(h.tags) <=> (IsSome(e.tags) /\ Get(e.tags) # <<>>)
    /\ IsSome(h.tags)
           => /\ Len(Get(h.tags)) = Len(Get(e.tags))
              /\ \A k \in 1..Len(Get(e.tags)) : Get(h.tags)[k] = Get(e.tags)[k]
    /\ IsSome(h.parentLink) <=> (e.parent # <<>> /\ e.parent # root)
    /\ IsSome(h.parentLink) => Get(h.parentLink) = e.parent

C22_LoadingWhilePending ==
    fetch = "pending" => treeContainer = <<NoWord("Loading...")>>

---------------------------------------------------------------------------
(* The debounced search box.                                               *)

\* The search term and the tree are those of the content of the box.
SearchSettled ==
    /\ timers = {}
    /\ searchTerm = toLowerCase(trim(searchInput))
    /\ fetch = "ok"
           => StripActive(treeContainer)
                  = StripActive(renderTree(words, None, searchTerm))

(* C23.  Debounce liveness: every pending timer fires or is replaced by    *)
(* the next keystroke; the timer that fires stores the trimmed and         *)
(* lower-cased content the box has at that moment and renders the tree     *)
(* for it; and once the keystrokes have stopped, the term and the tree     *)
(* are in the end those of the content of the box, so that no keystroke    *)
(* is lost for good.                                                       *)
C23_DebounceLiveness ==
    /\ \A n \in 1..MaxKeys : (n \in timers) ~> (n \notin timers)
    /\ [][updates' # updates
            => /\ searchTerm' = toLowerCase(trim(searchInput))
               /\ treeContainer' = renderTree(words, currentWord, searchTerm')]_vars
    /\ <>[][nextTimer' = nextTimer]_vars => <>[]SearchSettled

\* Two timers have fired, the last for a box whose content had to be
\* trimmed and lower-cased, and the tree shows the results for it.
C23_Witness ==
    /\ updates >= 2
    /\ searchInput = <<"A", " ">>
    /\ fetch = "ok"
    /\ SearchSettled
    /\ treeContainer # <<NoWord("No results found.")>>

---------------------------------------------------------------------------
(* The frames of the hover and of the debounced update.                    *)

\* A step of the mouseover or of the mouseout handler.
HoverStep ==
    \/ \E i \in 1..Len(treeContainer) : handleTreeMouseover(i)
    \/ handleTreeMouseout

(* C24.  Hover and hover-out on a tree node change only the prefetch       *)
(* cache: the record set, the current selection, the search term, the      *)
(* displayed tree and the displayed definition panel are the same after    *)
(* as before; and what a hover computes for a word without an entry is     *)
(* the empty string, with which the cache counts as empty.                 *)
C24_HoverFrame ==
    /\ [][HoverStep
            => /\ words' = words
               /\ currentWord' = currentWord
               /\ searchTerm' = searchTerm
               /\ treeContainer' = treeContainer
               /\ definitionPanel' = definitionPanel]_vars
    /\ [](\A q \in Keys :
             findWord(words, q) = None
                 => ~Truthy(Some(generateDefinitionHTML(findWord(words, q)))))

\* The pointer is over a node, the cache holds the definition of its
\* word, and the panel still shows something else.
C24_Witness ==
    /\ IsSome(hover)
    /\ Truthy(prefetchedDefinition)
    /\ prefetchedDefinition =
           Some(generateDefinitionHTML(findWord(words, Get(treeContainer[Get(hover)].word))))
    /\ definitionPanel # Get(prefetchedDefinition)
    /\ \E q \in Keys : findWord(words, q) = None

(* C25.  A debounced update of the search term changes only the search     *)
(* term and the tree: the current selection, the prefetch cache and the    *)
(* content of the definition panel are the same after it as before, and    *)
(* the new tree marks the nodes of the selected word, so that a selected   *)
(* word stays selected when a search is entered and when it is cleared.    *)
C25_UpdateFrame ==
    [][(\E t \in timers : handleSearchInput(t))
          => /\ currentWord' = currentWord
             /\ prefetchedDefinition' = prefetchedDefinition
             /\ definitionPanel' = definitionPanel
             /\ words' = words
             /\ \A i \in 1..Len(treeContainer') :
                    IsSome(treeContainer'[i].word)
                        => ("active" \in treeContainer'[i].cls
                               <=> /\ IsSome(currentWord)
                                   /\ treeContainer'[i].word = Some(Get(currentWord).word))]_vars

\* A word is selected, the pointer has come over a node since, and a
\* debounced update has then replaced the tree: the selection and the
\* cache are still there, and the box has been cleared again.
C25_Witness ==
    /\ IsSome(currentWord)
    /\ hover = None
    /\ Truthy(prefetchedDefinition)
    /\ updates >= 2
    /\ timers = {}
    /\ searchTerm = <<>>
    /\ \E i \in 1..Len(treeContainer) : "active" \in treeContainer[i].cls

===========================================================================
